---- MODULE Spec2Model ----
EXTENDS Integers, Sequences, FiniteSets, TLC

(***************************************************************************)
(* Model of src/main.py: VeteranVCAnalyzer.parse_detailed_scores and the   *)
(* control flow of main().                                                 *)
(*                                                                         *)
(* A text (a Python str) is a sequence of text elements.  An element is    *)
(* either one character or one of the multi-character strings below, which *)
(* only ever occur as a whole; the Python string is the concatenation of   *)
(* the elements.  A printable ASCII character is written as itself ("3",   *)
(* "/", ".", ":", " ", "a"), tab, line feed, form feed and carriage return *)
(* as "\t", "\n", "\f", "\r", and any other character as "U" and its code  *)
(* point in hexadecimal ("U0663" is ARABIC-INDIC DIGIT THREE).             *)
(*                                                                         *)
(*   "ClarityLogic"        '명확성 및 논리성'                               *)
(*   "MarketAnalysis"      '시장 분석'                                      *)
(*   "BusinessModel"       '사업 모델'                                      *)
(*   "ExecutionPlan"       '실행 계획'                                      *)
(*   "FinancialPlan"       '재무 계획'                                      *)
(*   "TechDifferentiation" '기술/제품 차별성'                               *)
(*   "TeamCapability"      '팀의 역량'                                      *)
(*   "MarketSizing"        '시장 규모'   (a synonym header, not a name)     *)
(*   "NoInformation"       '평가 정보 없음' (the sentinel detail)           *)
(*                                                                         *)
(* Every name begins and ends with a character that is neither a digit nor *)
(* white space and contains no digit, so inside a match it behaves as one  *)
(* such character; no name occurs in a concatenation of other elements, so *)
(* a literal match of a name in the string is a match of its element.      *)
(***************************************************************************)

\* pc: the position of the current run of main(); uploaded_file,
\* business_plan_text, feedback, scores: its locals; calls: the analyzer
\* methods the run has invoked, in order; messages: what the run has shown.
VARIABLES pc, uploaded_file, business_plan_text, feedback, scores, calls, messages

vars == <<pc, uploaded_file, business_plan_text, feedback, scores, calls, messages>>

\* Bound: a generated feedback text is a concatenation of at most MaxPieces pieces.
MaxPieces == 4

\* Bound: the long denominators tried are IntMaxStrDigits - LongSpread + 1 up
\* to IntMaxStrDigits + LongSpread digits long.
LongSpread == 13

\* ------------------------------------------------------------------ values

\* Python None where a str is expected (no text is equal to it).
NoneStr == <<"<None>">>

\* Mutant of Truthy: the test `x is not None`, which lets '' through.
IsNotNone(x) == x # NoneStr

\* `if x:` on an Optional[str]: None and '' are falsy.
Truthy(x) == x # NoneStr /\ x # <<>>

\* parse_detailed_scores: the category list, in order.
categories ==
  << "ClarityLogic", "MarketAnalysis", "BusinessModel", "ExecutionPlan",
     "FinancialPlan", "TechDifferentiation", "TeamCapability" >>

\* The detail of the else-branch entry.
Sentinel == <<"NoInformation">>

\* The least x in a..b with p[x], 0 when there is none.
First(a, b, p) ==
  IF \E x \in a..b : p[x]
  THEN CHOOSE x \in a..b : p[x] /\ \A y \in a .. x - 1 : ~p[y]
  ELSE 0

\* The greatest x in a..b with p[x], 0 when there is none.
Last(a, b, p) ==
  IF \E x \in a..b : p[x]
  THEN CHOOSE x \in a..b : p[x] /\ \A y \in x + 1 .. b : ~p[y]
  ELSE 0

\* ------------------------------------------------------------------ character classes

\* The ASCII digits, by value.
DigitSeq == <<"0", "1", "2", "3", "4", "5", "6", "7", "8", "9">>

\* The other decimal digits of Unicode (category Nd), one row per script, by
\* value: the patterns are str patterns without re.ASCII, and int() and
\* float() read these digits too.
UnicodeDigitRows ==
  <<
     <<"U0660", "U0661", "U0662", "U0663", "U0664", "U0665", "U0666", "U0667", "U0668", "U0669">>,
     <<"U06F0", "U06F1", "U06F2", "U06F3", "U06F4", "U06F5", "U06F6", "U06F7", "U06F8", "U06F9">>,
     <<"U07C0", "U07C1", "U07C2", "U07C3", "U07C4", "U07C5", "U07C6", "U07C7", "U07C8", "U07C9">>,
     <<"U0966", "U0967", "U0968", "U0969", "U096A", "U096B", "U096C", "U096D", "U096E", "U096F">>,
     <<"U09E6", "U09E7", "U09E8", "U09E9", "U09EA", "U09EB", "U09EC", "U09ED", "U09EE", "U09EF">>,
     <<"U0A66", "U0A67", "U0A68", "U0A69", "U0A6A", "U0A6B", "U0A6C", "U0A6D", "U0A6E", "U0A6F">>,
     <<"U0AE6", "U0AE7", "U0AE8", "U0AE9", "U0AEA", "U0AEB", "U0AEC", "U0AED", "U0AEE", "U0AEF">>,
     <<"U0B66", "U0B67", "U0B68", "U0B69", "U0B6A", "U0B6B", "U0B6C", "U0B6D", "U0B6E", "U0B6F">>,
     <<"U0BE6", "U0BE7", "U0BE8", "U0BE9", "U0BEA", "U0BEB", "U0BEC", "U0BED", "U0BEE", "U0BEF">>,
     <<"U0C66", "U0C67", "U0C68", "U0C69", "U0C6A", "U0C6B", "U0C6C", "U0C6D", "U0C6E", "U0C6F">>,
     <<"U0CE6", "U0CE7", "U0CE8", "U0CE9", "U0CEA", "U0CEB", "U0CEC", "U0CED", "U0CEE", "U0CEF">>,
     <<"U0D66", "U0D67", "U0D68", "U0D69", "U0D6A", "U0D6B", "U0D6C", "U0D6D", "U0D6E", "U0D6F">>,
     <<"U0DE6", "U0DE7", "U0DE8", "U0DE9", "U0DEA", "U0DEB", "U0DEC", "U0DED", "U0DEE", "U0DEF">>,
     <<"U0E50", "U0E51", "U0E52", "U0E53", "U0E54", "U0E55", "U0E56", "U0E57", "U0E58", "U0E59">>,
     <<"U0ED0", "U0ED1", "U0ED2", "U0ED3", "U0ED4", "U0ED5", "U0ED6", "U0ED7", "U0ED8", "U0ED9">>,
     <<"U0F20", "U0F21", "U0F22", "U0F23", "U0F24", "U0F25", "U0F26", "U0F27", "U0F28", "U0F29">>,
     <<"U1040", "U1041", "U1042", "U1043", "U1044", "U1045", "U1046", "U1047", "U1048", "U1049">>,
     <<"U1090", "U1091", "U1092", "U1093", "U1094", "U1095", "U1096", "U1097", "U1098", "U1099">>,
     <<"U17E0", "U17E1", "U17E2", "U17E3", "U17E4", "U17E5", "U17E6", "U17E7", "U17E8", "U17E9">>,
     <<"U1810", "U1811", "U1812", "U1813", "U1814", "U1815", "U1816", "U1817", "U1818", "U1819">>,
     <<"U1946", "U1947", "U1948", "U1949", "U194A", "U194B", "U194C", "U194D", "U194E", "U194F">>,
     <<"U19D0", "U19D1", "U19D2", "U19D3", "U19D4", "U19D5", "U19D6", "U19D7", "U19D8", "U19D9">>,
     <<"U1A80", "U1A81", "U1A82", "U1A83", "U1A84", "U1A85", "U1A86", "U1A87", "U1A88", "U1A89">>,
     <<"U1A90", "U1A91", "U1A92", "U1A93", "U1A94", "U1A95", "U1A96", "U1A97", "U1A98", "U1A99">>,
     <<"U1B50", "U1B51", "U1B52", "U1B53", "U1B54", "U1B55", "U1B56", "U1B57", "U1B58", "U1B59">>,
     <<"U1BB0", "U1BB1", "U1BB2", "U1BB3", "U1BB4", "U1BB5", "U1BB6", "U1BB7", "U1BB8", "U1BB9">>,
     <<"U1C40", "U1C41", "U1C42", "U1C43", "U1C44", "U1C45", "U1C46", "U1C47", "U1C48", "U1C49">>,
     <<"U1C50", "U1C51", "U1C52", "U1C53", "U1C54", "U1C55", "U1C56", "U1C57", "U1C58", "U1C59">>,
     <<"UA620", "UA621", "UA622", "UA623", "UA624", "UA625", "UA626", "UA627", "UA628", "UA629">>,
     <<"UA8D0", "UA8D1", "UA8D2", "UA8D3", "UA8D4", "UA8D5", "UA8D6", "UA8D7", "UA8D8", "UA8D9">>,
     <<"UA900", "UA901", "UA902", "UA903", "UA904", "UA905", "UA906", "UA907", "UA908", "UA909">>,
     <<"UA9D0", "UA9D1", "UA9D2", "UA9D3", "UA9D4", "UA9D5", "UA9D6", "UA9D7", "UA9D8", "UA9D9">>,
     <<"UA9F0", "UA9F1", "UA9F2", "UA9F3", "UA9F4", "UA9F5", "UA9F6", "UA9F7", "UA9F8", "UA9F9">>,
     <<"UAA50", "UAA51", "UAA52", "UAA53", "UAA54", "UAA55", "UAA56", "UAA57", "UAA58", "UAA59">>,
     <<"UABF0", "UABF1", "UABF2", "UABF3", "UABF4", "UABF5", "UABF6", "UABF7", "UABF8", "UABF9">>,
     <<"UFF10", "UFF11", "UFF12", "UFF13", "UFF14", "UFF15", "UFF16", "UFF17", "UFF18", "UFF19">>,
     <<"U104A0", "U104A1", "U104A2", "U104A3", "U104A4", "U104A5", "U104A6", "U104A7", "U104A8", "U104A9">>,
     <<"U10D30", "U10D31", "U10D32", "U10D33", "U10D34", "U10D35", "U10D36", "U10D37", "U10D38", "U10D39">>,
     <<"U11066", "U11067", "U11068", "U11069", "U1106A", "U1106B", "U1106C", "U1106D", "U1106E", "U1106F">>,
     <<"U110F0", "U110F1", "U110F2", "U110F3", "U110F4", "U110F5", "U110F6", "U110F7", "U110F8", "U110F9">>,
     <<"U11136", "U11137", "U11138", "U11139", "U1113A", "U1113B", "U1113C", "U1113D", "U1113E", "U1113F">>,
     <<"U111D0", "U111D1", "U111D2", "U111D3", "U111D4", "U111D5", "U111D6", "U111D7", "U111D8", "U111D9">>,
     <<"U112F0", "U112F1", "U112F2", "U112F3", "U112F4", "U112F5", "U112F6", "U112F7", "U112F8", "U112F9">>,
     <<"U11450", "U11451", "U11452", "U11453", "U11454", "U11455", "U11456", "U11457", "U11458", "U11459">>,
     <<"U114D0", "U114D1", "U114D2", "U114D3", "U114D4", "U114D5", "U114D6", "U114D7", "U114D8", "U114D9">>,
     <<"U11650", "U11651", "U11652", "U11653", "U11654", "U11655", "U11656", "U11657", "U11658", "U11659">>,
     <<"U116C0", "U116C1", "U116C2", "U116C3", "U116C4", "U116C5", "U116C6", "U116C7", "U116C8", "U116C9">>,
     <<"U11730", "U11731", "U11732", "U11733", "U11734", "U11735", "U11736", "U11737", "U11738", "U11739">>,
     <<"U118E0", "U118E1", "U118E2", "U118E3", "U118E4", "U118E5", "U118E6", "U118E7", "U118E8", "U118E9">>,
     <<"U11950", "U11951", "U11952", "U11953", "U11954", "U11955", "U11956", "U11957", "U11958", "U11959">>,
     <<"U11C50", "U11C51", "U11C52", "U11C53", "U11C54", "U11C55", "U11C56", "U11C57", "U11C58", "U11C59">>,
     <<"U11D50", "U11D51", "U11D52", "U11D53", "U11D54", "U11D55", "U11D56", "U11D57", "U11D58", "U11D59">>,
     <<"U11DA0", "U11DA1", "U11DA2", "U11DA3", "U11DA4", "U11DA5", "U11DA6", "U11DA7", "U11DA8", "U11DA9">>,
     <<"U16A60", "U16A61", "U16A62", "U16A63", "U16A64", "U16A65", "U16A66", "U16A67", "U16A68", "U16A69">>,
     <<"U16AC0", "U16AC1", "U16AC2", "U16AC3", "U16AC4", "U16AC5", "U16AC6", "U16AC7", "U16AC8", "U16AC9">>,
     <<"U16B50", "U16B51", "U16B52", "U16B53", "U16B54", "U16B55", "U16B56", "U16B57", "U16B58", "U16B59">>,
     <<"U1D7CE", "U1D7CF", "U1D7D0", "U1D7D1", "U1D7D2", "U1D7D3", "U1D7D4", "U1D7D5", "U1D7D6", "U1D7D7">>,
     <<"U1D7D8", "U1D7D9", "U1D7DA", "U1D7DB", "U1D7DC", "U1D7DD", "U1D7DE", "U1D7DF", "U1D7E0", "U1D7E1">>,
     <<"U1D7E2", "U1D7E3", "U1D7E4", "U1D7E5", "U1D7E6", "U1D7E7", "U1D7E8", "U1D7E9", "U1D7EA", "U1D7EB">>,
     <<"U1D7EC", "U1D7ED", "U1D7EE", "U1D7EF", "U1D7F0", "U1D7F1", "U1D7F2", "U1D7F3", "U1D7F4", "U1D7F5">>,
     <<"U1D7F6", "U1D7F7", "U1D7F8", "U1D7F9", "U1D7FA", "U1D7FB", "U1D7FC", "U1D7FD", "U1D7FE", "U1D7FF">>,
     <<"U1E140", "U1E141", "U1E142", "U1E143", "U1E144", "U1E145", "U1E146", "U1E147", "U1E148", "U1E149">>,
     <<"U1E2F0", "U1E2F1", "U1E2F2", "U1E2F3", "U1E2F4", "U1E2F5", "U1E2F6", "U1E2F7", "U1E2F8", "U1E2F9">>,
     <<"U1E950", "U1E951", "U1E952", "U1E953", "U1E954", "U1E955", "U1E956", "U1E957", "U1E958", "U1E959">>,
     <<"U1FBF0", "U1FBF1", "U1FBF2", "U1FBF3", "U1FBF4", "U1FBF5", "U1FBF6", "U1FBF7", "U1FBF8", "U1FBF9">>
  >>

AsciiDigitSet == {DigitSeq[v] : v \in 1..10}

UnicodeDigitSet == {UnicodeDigitRows[r][v] : r \in 1..Len(UnicodeDigitRows), v \in 1..10}

\* \d
IsDigit(c) == c \in AsciiDigitSet \/ c \in UnicodeDigitSet

\* The white space of Unicode (str.isspace).
WhiteSpace ==
  { "\t", "\n", "U000B", "\f", "\r", "U001C", "U001D", "U001E",
    "U001F", " ", "U0085", "U00A0", "U1680", "U2000", "U2001",
    "U2002", "U2003", "U2004", "U2005", "U2006", "U2007", "U2008",
    "U2009", "U200A", "U2028", "U2029", "U202F", "U205F", "U3000" }

\* \s, and what str.strip() removes
IsSpace(c) == c \in WhiteSpace

\* The value of a decimal digit.
DigitVal(c) ==
  IF c \in AsciiDigitSet
  THEN (CHOOSE v \in 1..10 : DigitSeq[v] = c) - 1
  ELSE (CHOOSE v \in 1..10 : \E r \in 1..Len(UnicodeDigitRows) : UnicodeDigitRows[r][v] = c) - 1

\* ------------------------------------------------------------------ numbers

\* sys.int_info.default_max_str_digits of Python 3.11 and later: int() of a
\* string with more digits raises ValueError.
IntMaxStrDigits == 4300

\* A natural number as its decimal numeral, the form an int is kept in.
RECURSIVE Dec(_)
Dec(n) ==
  IF n < 10 THEN <<DigitSeq[n + 1]>>
  ELSE Append(Dec(n \div 10), DigitSeq[(n % 10) + 1])

\* int(s) on a string of decimal digits: its value, as the ASCII numeral
\* without leading zeros.
ToInt(ds) ==
  LET a == [i \in 1..Len(ds) |-> DigitSeq[DigitVal(ds[i]) + 1]]
      z == First(1, Len(a), [i \in 1..Len(a) |-> a[i] # "0"])
  IN IF z = 0 THEN <<"0">> ELSE SubSeq(a, z, Len(a))

\* ---- natural numbers of any size
\*
\* A natural number too large for a machine word is a sequence of limbs, the
\* least significant first, each in 0 .. Base - 1, with no zero limb at the
\* top; zero is the empty sequence.

\* The bits of a limb.
LimbBits == 27

Base == 2 ^ LimbBits

\* a without its zero limbs at the top.
Norm(a) == SubSeq(a, 1, Last(1, Len(a), [i \in 1..Len(a) |-> a[i] # 0]))

\* The number of bits of a: the least n with a < 2^n.
BitLen(a) ==
  IF a = <<>> THEN 0
  ELSE (Len(a) - 1) * LimbBits
         + First(1, LimbBits, [x \in 1..LimbBits |-> a[Len(a)] < 2 ^ x])

\* a * 2^n
Shl(a, n) ==
  LET q == n \div LimbBits
      r == n % LimbBits
      At(j) == IF 1 <= j /\ j <= Len(a) THEN a[j] ELSE 0
  IN Norm([i \in 1 .. Len(a) + q + 1 |->
             (At(i - q) % 2 ^ (LimbBits - r)) * 2 ^ r
               + At(i - q - 1) \div 2 ^ (LimbBits - r)])

\* a \div 2^n
Shr(a, n) ==
  LET q == n \div LimbBits
      r == n % LimbBits
      At(j) == IF j <= Len(a) THEN a[j] ELSE 0
  IN Norm([i \in 1 .. Len(a) - q |->
             At(i + q) \div 2 ^ r + (At(i + q + 1) % 2 ^ r) * 2 ^ (LimbBits - r)])

\* a % 2^n = 0
LowBitsZero(a, n) ==
  LET q == n \div LimbBits
      r == n % LimbBits
  IN /\ \A i \in 1..q : i <= Len(a) => a[i] = 0
     /\ q + 1 <= Len(a) => a[q + 1] % 2 ^ r = 0

\* -1, 0 or 1 as a < b, a = b or a > b.
Cmp(a, b) ==
  IF Len(a) # Len(b) THEN (IF Len(a) < Len(b) THEN -1 ELSE 1)
  ELSE LET d == Last(1, Len(a), [i \in 1..Len(a) |-> a[i] # b[i]])
       IN IF d = 0 THEN 0 ELSE IF a[d] < b[d] THEN -1 ELSE 1

\* The limbs lo..hi of a * k + c and the carry out of them, c being the carry
\* into limb lo (k <= 10, c < k or c <= 9).
RECURSIVE MulAddRange(_, _, _, _, _)
MulAddRange(a, lo, hi, k, c) ==
  IF lo = hi
  THEN [out |-> <<(a[lo] * k + c) % Base>>, carry |-> (a[lo] * k + c) \div Base]
  ELSE LET mid == (lo + hi) \div 2
           l   == MulAddRange(a, lo, mid, k, c)
           h   == MulAddRange(a, mid + 1, hi, k, l.carry)
       IN [out |-> l.out \o h.out, carry |-> h.carry]

\* a * k + c
MulAdd(a, k, c) ==
  IF a = <<>> THEN (IF c = 0 THEN <<>> ELSE <<c>>)
  ELSE LET r == MulAddRange(a, 1, Len(a), k, c)
       IN IF r.carry = 0 THEN r.out ELSE Append(r.out, r.carry)

\* The limbs lo..hi of a - b and the borrow out of them, c being the borrow
\* into limb lo.
RECURSIVE SubRange(_, _, _, _, _)
SubRange(a, b, lo, hi, c) ==
  IF lo = hi
  THEN LET v == a[lo] - (IF lo <= Len(b) THEN b[lo] ELSE 0) - c
       IN [out |-> <<v % Base>>, borrow |-> IF v < 0 THEN 1 ELSE 0]
  ELSE LET mid == (lo + hi) \div 2
           l   == SubRange(a, b, lo, mid, c)
           h   == SubRange(a, b, mid + 1, hi, l.borrow)
       IN [out |-> l.out \o h.out, borrow |-> h.borrow]

\* a - b, for a >= b.
Sub(a, b) == IF a = <<>> THEN <<>> ELSE Norm(SubRange(a, b, 1, Len(a), 0).out)

\* acc followed by the decimal digits lo..hi of ds: acc * 10^(hi-lo+1) + the
\* number the digits spell.
RECURSIVE FromDigitsRange(_, _, _, _)
FromDigitsRange(ds, lo, hi, acc) ==
  IF lo = hi THEN MulAdd(acc, 10, DigitVal(ds[lo]))
  ELSE LET mid == (lo + hi) \div 2
           l   == FromDigitsRange(ds, lo, mid, acc)
       IN IF l = <<>> THEN FromDigitsRange(ds, mid + 1, hi, <<>>)
          ELSE FromDigitsRange(ds, mid + 1, hi, l)

\* The number a string of decimal digits spells.
FromDigits(ds) == IF ds = <<>> THEN <<>> ELSE FromDigitsRange(ds, 1, Len(ds), <<>>)

\* ---- float

\* An IEEE 754 double: 53 bits of mantissa, the least normal exponent -1022,
\* all values below 2^1024.
MantBits == 53

MinExp == -1022

MaxExp == 1024

\* Every double and every midpoint of two doubles is a multiple of
\* 2^(MinExp - MantBits), whose decimal expansion has this many places:
\* later digits of a numeral tell no more than whether they are all zero.
FracPlaces == MantBits - MinExp

\* A numeral with more whole digits is 10^WholeDigits or more, above 2^MaxExp.
WholeDigits == 309

\* A float is the double mant * 2^exp with mant odd, a number in limbs, or
\* 0.0 (mant empty), or inf.
FloatZero == [inf |-> FALSE, mant |-> <<>>, exp |-> 0]

FloatInf == [inf |-> TRUE, mant |-> <<>>, exp |-> 0]

\* The double m * 2^e (m of at most MantBits + 1 bits), inf from 2^MaxExp on.
Float(m, e) ==
  IF m = <<>> THEN FloatZero
  ELSE IF BitLen(m) + e > MaxExp THEN FloatInf
  ELSE LET tz == First(1, BitLen(m), [n \in 1..BitLen(m) |-> ~LowBitsZero(m, n)]) - 1
       IN [inf |-> FALSE, mant |-> Shr(m, tz), exp |-> e + tz]

\* The quotient bits j..0 of a division by t \div 2^(MantBits): st.r is the
\* remainder so far times two, st.q the quotient bits so far.  The division
\* ends early when nothing remains.
RECURSIVE DivBits(_, _)
DivBits(st, t) ==
  IF st.j < 0 THEN st
  ELSE IF st.r = <<>> THEN [q |-> Shl(st.q, st.j + 1), r |-> <<>>, j |-> -1]
  ELSE IF Cmp(st.r, t) >= 0
       THEN DivBits([q |-> MulAdd(st.q, 2, 1), r |-> Shl(Sub(st.r, t), 1), j |-> st.j - 1], t)
       ELSE DivBits([q |-> MulAdd(st.q, 2, 0), r |-> Shl(st.r, 1), j |-> st.j - 1], t)

\* The double nearest to a / b (a > 0, b > 0), ties to the even mantissa;
\* more tells that the number is in fact a little above a / b.
Nearest(a, b, more) ==
  LET e0 == BitLen(a) - BitLen(b)
      \* 2^e <= a / b < 2^(e + 1)
      e  == IF e0 >= 0
            THEN (IF Cmp(a, Shl(b, e0)) >= 0 THEN e0 ELSE e0 - 1)
            ELSE (IF Cmp(Shl(a, -e0), b) >= 0 THEN e0 ELSE e0 - 1)
      \* the doubles around a / b are the multiples of 2^(1 - s)
      ee == IF e < MinExp THEN MinExp ELSE e
      s  == MantBits - ee
      num == IF s >= 0 THEN Shl(a, s) ELSE a
      den == IF s >= 0 THEN b ELSE Shl(b, -s)
      \* st.q = num \div den, of at most MantBits + 1 bits
      st == DivBits([q |-> <<>>, r |-> num, j |-> MantBits], Shl(den, MantBits))
      m0 == Shr(st.q, 1)
      half == st.q # <<>> /\ st.q[1] % 2 = 1
      above == st.r # <<>> \/ more
      odd == m0 # <<>> /\ m0[1] % 2 = 1
      m  == IF half /\ (above \/ odd) THEN MulAdd(m0, 1, 1) ELSE m0
  IN Float(m, 1 - s)

\* float(s) on a string digits[.digits]: the double nearest to the number.
ToFloat(ds) ==
  LET p  == First(1, Len(ds), [i \in 1..Len(ds) |-> ds[i] = "."])
      ip == IF p = 0 THEN ds ELSE SubSeq(ds, 1, p - 1)
      fp == IF p = 0 THEN <<>> ELSE SubSeq(ds, p + 1, Len(ds))
      z  == First(1, Len(ip), [i \in 1..Len(ip) |-> DigitVal(ip[i]) # 0])
      w  == IF z = 0 THEN <<>> ELSE SubSeq(ip, z, Len(ip))
      k  == IF Len(fp) < FracPlaces THEN Len(fp) ELSE FracPlaces
      more == \E i \in k + 1 .. Len(fp) : DigitVal(fp[i]) # 0
      a  == FromDigits(w \o SubSeq(fp, 1, k))
      b  == FromDigits(<<"1">> \o [i \in 1..k |-> "0"])
  IN IF Len(w) > WholeDigits THEN FloatInf
     ELSE IF a = <<>> THEN FloatZero
     ELSE Nearest(a, b, more)

\* float(s) raises ValueError unless s is a numeral: digits with at most one
\* "." among them and at least one digit.
IsFloatLiteral(ds) ==
  /\ \E i \in 1..Len(ds) : IsDigit(ds[i])
  /\ \A i \in 1..Len(ds) : IsDigit(ds[i]) \/ ds[i] = "."
  /\ Cardinality({i \in 1..Len(ds) : ds[i] = "."}) <= 1

\* int(s) raises ValueError unless s is a non-empty string of digits, of at
\* most IntMaxStrDigits digits.
IsIntLiteral(ds) ==
  /\ Len(ds) > 0
  /\ Len(ds) <= IntMaxStrDigits
  /\ \A i \in 1..Len(ds) : IsDigit(ds[i])

\* str.strip()
Strip(s) ==
  LET a == First(1, Len(s), [i \in 1..Len(s) |-> ~IsSpace(s[i])])
      b == Last(1, Len(s), [i \in 1..Len(s) |-> ~IsSpace(s[i])])
  IN IF a = 0 THEN <<>> ELSE SubSeq(s, a, b)

\* ------------------------------------------------------------------ regex

\* Greedy \d+ from i (t[i] a digit): the index of the last digit of the run.
DigitRunEnd(t, i) ==
  First(i, Len(t), [j \in 1..Len(t) |-> j = Len(t) \/ ~IsDigit(t[j + 1])])

\* Greedy \s* after index e: the index of the last white space (e when none).
SpaceRunEnd(t, e) ==
  First(e, Len(t), [j \in 1..Len(t) |-> j = Len(t) \/ ~IsSpace(t[j + 1])])

\* (\d+(?:\.\d+)?)/ at i: the set of ends j of group 1 with t[j+1] = "/" and a
\* digit after it.  A shortened \d+ is followed by a digit, never by "." or
\* "/", so only full runs take part; the set has at most one element.
Group1Ends(t, i) ==
  IF i > Len(t) \/ ~IsDigit(t[i]) THEN {}
  ELSE LET a == DigitRunEnd(t, i)
           withFrac == IF a + 2 <= Len(t) /\ t[a + 1] = "." /\ IsDigit(t[a + 2])
                       THEN {DigitRunEnd(t, a + 2)} ELSE {}
       IN {j \in withFrac \cup {a} :
             j + 2 <= Len(t) /\ t[j + 1] = "/" /\ IsDigit(t[j + 2])}

\* Mutant of CategoryAt: a pattern that keeps only the first word of the
\* name ('시장'), which '시장 규모' also starts with.
CategoryAtFirstWord(t, s, category) ==
  t[s] = category \/ (category = "MarketAnalysis" /\ t[s] = "MarketSizing")

\* The literal {category} at s.
CategoryAt(t, s, category) == t[s] = category

\* (?=\n\n|\n\d|\Z) at position p (DOTALL | MULTILINE change nothing here).
LookaheadAt(t, p) ==
  \/ p = Len(t) + 1
  \/ /\ p + 1 <= Len(t)
     /\ t[p] = "\n"
     /\ t[p + 1] = "\n" \/ IsDigit(t[p + 1])

\* /\d+ of detail_pattern after group 1 ending at j: the index of the last
\* digit the match keeps, 0 when there is no match.  \d+ is greedy and gives
\* digits back: the longest run wins that leaves a character for (.+?), the
\* lookahead being true at the end of the text at the latest.
DenominatorEnd(t, j) ==
  Last(j + 2, DigitRunEnd(t, j + 2), [e \in 1..Len(t) |-> e < Len(t)])

\* \s* of detail_pattern after the denominator ending at e < Len(t): greedy,
\* giving the last white space back when nothing else is left for (.+?).
SpaceEnd(t, e) ==
  Last(e, SpaceRunEnd(t, e), [w \in 1..Len(t) |-> w < Len(t)])

NoMatch == [found |-> FALSE]

\* score_pattern.search(feedback_text):
\*   {category}.*?(\d+(?:\.\d+)?)/(\d+)     re.DOTALL
\* leftmost start, lazy .*?, greedy groups.
ScoreSearch(t, category) ==
  LET Tok == [i \in 1..Len(t) |-> Group1Ends(t, i) # {}]
      s == First(1, Len(t),
                 [x \in 1..Len(t) |->
                    CategoryAt(t, x, category) /\ \E i \in x + 1 .. Len(t) : Tok[i]])
  IN IF s = 0 THEN NoMatch
     ELSE LET i == First(s + 1, Len(t), Tok)
              j == CHOOSE x \in Group1Ends(t, i) : TRUE
          IN [found |-> TRUE,
              g1 |-> SubSeq(t, i, j),
              g2 |-> SubSeq(t, j + 2, DigitRunEnd(t, j + 2))]

\* detail_pattern.search(feedback_text):
\*   {category}.*?(\d+(?:\.\d+)?)/\d+\s*(.+?)(?=\n\n|\n\d|\Z)
\* re.DOTALL | re.MULTILINE; leftmost start, lazy .*? and (.+?), greedy \d+
\* and \s*.
DetailSearch(t, category) ==
  LET Tok == [i \in 1..Len(t) |-> \E j \in Group1Ends(t, i) : DenominatorEnd(t, j) # 0]
      s == First(1, Len(t),
                 [x \in 1..Len(t) |->
                    CategoryAt(t, x, category) /\ \E i \in x + 1 .. Len(t) : Tok[i]])
  IN IF s = 0 THEN NoMatch
     ELSE LET i == First(s + 1, Len(t), Tok)
              j == CHOOSE x \in Group1Ends(t, i) : TRUE
              w == SpaceEnd(t, DenominatorEnd(t, j))
              k == First(w + 1, Len(t), [x \in 1..Len(t) |-> LookaheadAt(t, x + 1)])
          IN [found |-> TRUE,
              g1 |-> SubSeq(t, i, j),
              g2 |-> SubSeq(t, w + 1, k)]

\* ------------------------------------------------------------------ parse

\* The entry of the else branch.
DefaultEntry ==
  [score |-> FloatZero, max_score |-> Dec(20), details |-> Sentinel]

\* f > m for a float f and an int m.
Exceeds(f, m) ==
  \/ f.inf
  \/ /\ f.mant # <<>>
     /\ IF f.exp >= 0
        THEN Cmp(Shl(f.mant, f.exp), FromDigits(m)) = 1
        ELSE Cmp(f.mant, Shl(FromDigits(m), -f.exp)) = 1

\* Mutant of MatchedEntry: the score clamped to the denominator.
MatchedEntryClamped(score_match, detail_match) ==
  LET f == ToFloat(score_match.g1)
      m == ToInt(score_match.g2)
  IN [score     |-> IF Exceeds(f, m) THEN ToFloat(m) ELSE f,
      max_score |-> m,
      details   |-> Strip(detail_match.g2)]

\* The entry of the if branch.
MatchedEntry(score_match, detail_match) ==
  [score     |-> ToFloat(score_match.g1),
   max_score |-> ToInt(score_match.g2),
   details   |-> Strip(detail_match.g2)]

\* `if score_match and detail_match`: whether the if branch writes the entry
\* of the category.
IfBranch(t, category) ==
  ScoreSearch(t, category).found /\ DetailSearch(t, category).found

\* The body of the loop for one category.
ParseEntry(t, category) ==
  LET score_match  == ScoreSearch(t, category)
      detail_match == DetailSearch(t, category)
  IN IF score_match.found /\ detail_match.found
     THEN MatchedEntry(score_match, detail_match)
     ELSE DefaultEntry

\* Whether float(score_match.group(1)) or int(score_match.group(2)) raises in
\* the if branch for this category.
EntryRaises(t, category) ==
  LET score_match  == ScoreSearch(t, category)
      detail_match == DetailSearch(t, category)
  IN /\ score_match.found
     /\ detail_match.found
     /\ ~IsFloatLiteral(score_match.g1) \/ ~IsIntLiteral(score_match.g2)

\* scores[category] = entry on an insertion-ordered dict, kept as a sequence
\* of <<key, value>> pairs.
DictSet(d, key, value) ==
  IF \E i \in 1..Len(d) : d[i][1] = key
  THEN [i \in 1..Len(d) |-> IF d[i][1] = key THEN <<key, value>> ELSE d[i]]
  ELSE Append(d, <<key, value>>)

\* The for loop from the n-th category on, d being the dict so far: the
\* returned dict, or the exception that ends the call.
RECURSIVE ParseLoop(_, _, _)
ParseLoop(t, n, d) ==
  IF n > Len(categories) THEN [raised |-> FALSE, value |-> d]
  ELSE IF EntryRaises(t, categories[n]) THEN [raised |-> TRUE, value |-> d]
  ELSE ParseLoop(t, n + 1, DictSet(d, categories[n], ParseEntry(t, categories[n])))

parse_detailed_scores(feedback_text) == ParseLoop(feedback_text, 1, <<>>)

\* ------------------------------------------------------------------ inputs

\* The pieces a generated report is made of: category headers, a synonym
\* header, score tokens (adjacent ones run together, as in 3/514/10), a
\* separator, a line break, and a token in Arabic-Indic digits after a tab.
Pieces ==
  { <<"MarketAnalysis">>, <<"FinancialPlan">>, <<"MarketSizing">>,
    <<"1", "4", "/", "1", "0">>, <<"3", "/", "5">>, <<"1", ".", "5", "/", "1", "0">>,
    <<":", " ">>, <<"\n">>, <<"\t", "U0663", "/", "U0665">> }

RECURSIVE TextsOf(_)
TextsOf(n) ==
  IF n = 0 THEN {<<>>}
  ELSE LET S == TextsOf(n - 1) IN S \cup {p \o s : p \in Pieces, s \in S}

\* The texts made of at most MaxPieces pieces.
Texts == TextsOf(MaxPieces)

\* A category name, the token 1/99...9 with a denominator of n digits, and a
\* tail.
LongText(n, tail) ==
  <<"MarketAnalysis", "1", "/">> \o [x \in 1..n |-> "9"] \o tail

\* Reports with a denominator of about IntMaxStrDigits digits.
LongTexts ==
  {LongText(n, tail) :
     n \in IntMaxStrDigits - LongSpread + 1 .. IntMaxStrDigits + LongSpread,
     tail \in {<<>>, <<" ", "a">>, <<"\n">>}}

\* What the narrative generator may return as message content: the texts
\* made of pieces, and one long report.
Reports == Texts \cup {LongText(IntMaxStrDigits + 1, <<" ", "a">>)}

\* What the document-text provider may extract from a readable PDF.
PlanText == <<"a">>

\* ------------------------------------------------------------------ main()

Init ==
  /\ pc = "idle"
  /\ uploaded_file = "None"
  /\ business_plan_text = NoneStr
  /\ feedback = NoneStr
  /\ scores = <<>>
  /\ calls = <<>>
  /\ messages = <<>>

\* analyzer = VeteranVCAnalyzer() of a script run: _load_api_key finds no key,
\* or _initialize_openai_client catches an exception of OpenAI(); either
\* shows an error and st.stop() ends the run before the button is drawn.
AnalyzerInitStops ==
  /\ pc = "idle"
  /\ \E cause \in {"error_no_api_key", "error_client_init"} :
       messages' = Append(messages, cause)
  /\ pc' = "stopped"
  /\ UNCHANGED <<uploaded_file, business_plan_text, feedback, scores, calls>>

\* st.file_uploader: the user picks a PDF.
UploadFile ==
  /\ pc = "idle"
  /\ uploaded_file = "None"
  /\ uploaded_file' = "pdf"
  /\ UNCHANGED <<pc, business_plan_text, feedback, scores, calls, messages>>

\* st.button pressed with uploaded_file None: the outer else branch.
ClickWithoutFile ==
  /\ pc = "idle"
  /\ uploaded_file = "None"
  /\ messages' = Append(messages, "warning_upload_first")
  /\ pc' = "done"
  /\ UNCHANGED <<uploaded_file, business_plan_text, feedback, scores, calls>>

\* st.button pressed with a file: the run enters the spinner block.
ClickAnalyze ==
  /\ pc = "idle"
  /\ uploaded_file # "None"
  /\ pc' = "extract"
  /\ UNCHANGED <<uploaded_file, business_plan_text, feedback, scores, calls, messages>>

\* extract_text_from_pdf returns None (exception, reported by the method),
\* '' or the text; then `if business_plan_text:`.
ExtractText ==
  /\ pc = "extract"
  /\ \E r \in {NoneStr, <<>>, PlanText} :
       /\ business_plan_text' = r
       /\ calls' = Append(calls, "extract_text_from_pdf")
       /\ LET m == IF r = NoneStr
                   THEN messages \o <<"error_pdf", "warning_pdf_hint">>
                   ELSE messages
          IN IF Truthy(r)
             THEN messages' = m /\ pc' = "generate"
             ELSE messages' = Append(m, "warning_no_text") /\ pc' = "done"
  /\ UNCHANGED <<uploaded_file, feedback, scores>>

\* generate_ai_feedback returns None after an exception it reports, or the
\* message content, which is a string or None; then `if feedback:`.
GenerateFeedback ==
  /\ pc = "generate"
  /\ \E r \in {NoneStr} \cup Reports, excepted \in BOOLEAN :
       /\ excepted => r = NoneStr
       /\ feedback' = r
       /\ calls' = Append(calls, "generate_ai_feedback")
       /\ LET m == IF excepted THEN Append(messages, "error_ai_call") ELSE messages
          IN IF Truthy(r)
             THEN messages' = Append(m, "markdown_feedback") /\ pc' = "parse"
             ELSE messages' = Append(m, "error_ai") /\ pc' = "done"
  /\ UNCHANGED <<uploaded_file, business_plan_text, scores>>

\* scores = analyzer.parse_detailed_scores(feedback); then `if scores:`.  An
\* exception of the call is not caught by main(): the run ends with it.
ParseScores ==
  /\ pc = "parse"
  /\ calls' = Append(calls, "parse_detailed_scores")
  /\ \E r \in {parse_detailed_scores(feedback)} :
        IF r.raised
        THEN scores' = scores /\ pc' = "raised"
             /\ messages' = Append(messages, "uncaught_exception")
        ELSE /\ scores' = r.value
             /\ IF r.value # <<>>
                THEN pc' = "visualize" /\ messages' = messages
                ELSE pc' = "done" /\ messages' = Append(messages, "warning_no_scores")
  /\ UNCHANGED <<uploaded_file, business_plan_text, feedback>>

\* analyzer.visualize_scores(scores): charts and the table.
VisualizeScores ==
  /\ pc = "visualize"
  /\ calls' = Append(calls, "visualize_scores")
  /\ messages' = Append(messages, "charts_and_table")
  /\ pc' = "done"
  /\ UNCHANGED <<uploaded_file, business_plan_text, feedback, scores>>

\* The next interaction reruns the script: the locals of main() start over,
\* the uploader widget keeps its file.
Rerun ==
  /\ pc \in {"done", "raised", "stopped"}
  /\ pc' = "idle"
  /\ business_plan_text' = NoneStr
  /\ feedback' = NoneStr
  /\ scores' = <<>>
  /\ calls' = <<>>
  /\ messages' = <<>>
  /\ UNCHANGED uploaded_file

Next ==
  \/ AnalyzerInitStops
  \/ UploadFile
  \/ ClickWithoutFile
  \/ ClickAnalyze
  \/ ExtractText
  \/ GenerateFeedback
  \/ ParseScores
  \/ VisualizeScores
  \/ Rerun

Spec == Init /\ [][Next]_vars

\* parse_detailed_scores as a function of its argument: every text of the
\* bounded input set, the empty string included, is parsed once.
InitParse ==
  /\ pc = "parse"
  /\ uploaded_file = "pdf"
  /\ business_plan_text = PlanText
  /\ feedback \in Texts
  /\ scores = <<>>
  /\ calls = <<>>
  /\ messages = <<>>

NextParse == ParseScores

SpecParse == InitParse /\ [][NextParse]_vars

\* parse_detailed_scores on the long reports.
InitLong ==
  /\ pc = "parse"
  /\ uploaded_file = "pdf"
  /\ business_plan_text = PlanText
  /\ feedback \in LongTexts
  /\ scores = <<>>
  /\ calls = <<>>
  /\ messages = <<>>

NextLong == ParseScores

SpecLong == InitLong /\ [][NextLong]_vars

\* ------------------------------------------------------------------ rubric

\* The declared maximum of each category, in list order (the rubric of the
\* prompt in generate_ai_feedback).
DeclaredMax == <<Dec(20), Dec(25), Dec(20), Dec(15), Dec(15), Dec(10), Dec(5)>>

\* A recognized synonym header of a category (spec section 3: "market
\* analysis" or "market sizing" resolve to the same category).
SynonymOf(category) ==
  IF category = "MarketAnalysis" THEN {"MarketSizing"} ELSE {}

\* ------------------------------------------------------------------ helpers of the properties

Min(S) == CHOOSE x \in S : \A y \in S : x <= y

Max(S) == CHOOSE x \in S : \A y \in S : x >= y

CategorySet == {categories[n] : n \in 1..Len(categories)}

Called(f) == \E n \in 1..Len(calls) : calls[n] = f

\* parse_detailed_scores was called and has returned.
Parsed == Called("parse_detailed_scores") /\ pc # "raised"

Keys(d) == [n \in 1..Len(d) |-> d[n][1]]

EntryOf(d, key) == d[CHOOSE n \in 1..Len(d) : d[n][1] = key][2]

Occurrences(t, header) == {s \in 1..Len(t) : t[s] = header}

\* The end of the region of a header at s: the next category name or the end.
RegionEnd(t, s) ==
  Min({p \in s + 1 .. Len(t) + 1 : p = Len(t) + 1 \/ t[p] \in CategorySet})

\* The "/" of the score tokens <number>/<integer> of t.
Slashes(t) ==
  {q \in 2 .. Len(t) - 1 : t[q] = "/" /\ IsDigit(t[q - 1]) /\ IsDigit(t[q + 1])}

\* The numerator before the "/" at q: the longest digits[.digits] ending there.
NumeratorOf(t, q) ==
  LET AllDigits(a, b) == \A x \in a..b : IsDigit(t[x])
      Starts == {a \in 1 .. q - 1 :
                   \/ AllDigits(a, q - 1)
                   \/ \E d \in a + 1 .. q - 2 :
                        t[d] = "." /\ AllDigits(a, d - 1) /\ AllDigits(d + 1, q - 1)}
  IN SubSeq(t, Min(Starts), q - 1)

\* The denominator after the "/" at q: all the digits that follow.
DenominatorOf(t, q) ==
  SubSeq(t, q + 1, Max({b \in q + 1 .. Len(t) : \A x \in q + 1 .. b : IsDigit(t[x])}))

\* The score tokens in the region of the header at s.
OwnSlashes(t, s) == {q \in Slashes(t) : s < q /\ q < RegionEnd(t, s)}

\* The entry has the score and the details of the else-branch entry: score
\* 0.0 and the sentinel.  An entry of the if branch has them too when its
\* token has a zero numerator and the sentinel is its detail.
IsDefault(entry) ==
  entry.score = DefaultEntry.score /\ entry.details = DefaultEntry.details

\* ------------------------------------------------------------------ properties

\* C1 (as claimed): for every input text, the empty one included,
\* parse_detailed_scores returns without raising, and the keys of the result are exactly the seven
\* categories, each once, in list order, each value with a score, a
\* max_score and a details field.
C1_TotalAndOrdered ==
  /\ pc # "raised"
  /\ Called("parse_detailed_scores") =>
       /\ Keys(scores) = categories
       /\ \A n \in 1..Len(scores) :
            DOMAIN scores[n][2] = {"score", "max_score", "details"}

\* C2 (as claimed): when a category name occurs more than once, each
\* occurrence with a score token of its own, the entry carries the score of
\* the last occurrence.
C2_LastOccurrenceWins ==
  Parsed =>
    \A c \in CategorySet :
      LET O == Occurrences(feedback, c)
      IN (Cardinality(O) >= 2 /\ \A s \in O : OwnSlashes(feedback, s) # {}) =>
           EntryOf(scores, c).score =
             ToFloat(NumeratorOf(feedback, Min(OwnSlashes(feedback, Max(O)))))

\* C3 (as claimed): a category name that occurs once and is followed by a
\* score token n/m of its own has score n, whether or not a detail excerpt
\* can be captured after the token.
C3_ScoreStandsWithoutDetail ==
  Parsed =>
    \A c \in CategorySet :
      LET O == Occurrences(feedback, c)
      IN (Cardinality(O) = 1 /\ OwnSlashes(feedback, Min(O)) # {}) =>
           EntryOf(scores, c).score =
             ToFloat(NumeratorOf(feedback, Min(OwnSlashes(feedback, Min(O)))))

\* C4 (as claimed): a category name that occurs in the text with no score
\* token between it and the next category name (or the end) gets the default
\* entry; the token of a later category is not attributed to it.
C4_NoTokenInRegionIsDefault ==
  Parsed =>
    \A c \in CategorySet :
      LET O == Occurrences(feedback, c)
      IN (O # {} /\ \A s \in O : OwnSlashes(feedback, s) = {}) =>
           IsDefault(EntryOf(scores, c))

\* C5 (as claimed): an entry written by the else branch carries the declared
\* maximum of its category (20, 25, 20, 15, 15, 10, 5).
C5_DefaultMaxIsDeclared ==
  Parsed =>
    \A n \in 1..Len(scores) :
      ~IfBranch(feedback, categories[n]) => scores[n][2].max_score = DeclaredMax[n]

\* C6: a text with none of the seven category names yields score 0 and the
\* sentinel detail for every category, whatever tokens it contains.
C6_NoCategoryAllDefault ==
  (Parsed /\ \A s \in 1..Len(feedback) : feedback[s] \notin CategorySet) =>
    \A n \in 1..Len(scores) : IsDefault(scores[n][2])

\* C6 witness: a parsed text without category names that has a score token.
C6_Witness ==
  /\ Parsed
  /\ \A s \in 1..Len(feedback) : feedback[s] \notin CategorySet
  /\ Slashes(feedback) # {}
  /\ \A n \in 1..Len(scores) : IsDefault(scores[n][2])

\* C7: an entry written by the if branch has the numerator of a score token
\* that follows the category name as its score, unclamped, and the integer
\* denominator of that same token as its max_score.
C7_ScoreAndMaxFromToken ==
  Parsed =>
    \A c \in CategorySet :
      LET e == EntryOf(scores, c)
      IN IfBranch(feedback, c) =>
           \E q \in Slashes(feedback) :
             /\ \E s \in Occurrences(feedback, c) : s < q
             /\ e.score = ToFloat(NumeratorOf(feedback, q))
             /\ e.max_score = ToInt(DenominatorOf(feedback, q))

\* C7 witness: an entry of the if branch whose score is above its max_score
\* (14/10).
C7_Witness ==
  /\ Parsed
  /\ \E c \in CategorySet :
       LET e == EntryOf(scores, c)
       IN /\ IfBranch(feedback, c)
          /\ Exceeds(e.score, e.max_score)

\* C8 (as claimed): for a text that is just "<category>: N/M", the entry is
\* score N, max_score M, and the detail is empty or the sentinel.
C8_BareScoreLine ==
  Parsed =>
    \A c \in CategorySet :
      (/\ Len(feedback) >= 6
       /\ SubSeq(feedback, 1, 3) = <<c, ":", " ">>
       /\ Cardinality(Slashes(feedback)) = 1
       /\ \A x \in 4..Len(feedback) : IsDigit(feedback[x]) \/ x \in Slashes(feedback)) =>
        LET q == Min(Slashes(feedback))
            e == EntryOf(scores, c)
        IN /\ e.score = ToFloat(SubSeq(feedback, 4, q - 1))
           /\ e.max_score = ToInt(SubSeq(feedback, q + 1, Len(feedback)))
           /\ e.details \in {<<>>, Sentinel}

\* C9: parse_detailed_scores runs only after extract_text_from_pdf returned
\* non-empty text and generate_ai_feedback returned non-empty feedback, in
\* that order; a run without a file or with a failed collaborator ends with a
\* warning or an error and calls neither parse_detailed_scores nor
\* visualize_scores; a run stopped by the constructor calls nothing at all.
C9_ShortCircuit ==
  /\ Called("parse_detailed_scores") =>
       /\ SubSeq(calls, 1, 3) =
            <<"extract_text_from_pdf", "generate_ai_feedback", "parse_detailed_scores">>
       /\ uploaded_file # "None"
       /\ business_plan_text \notin {NoneStr, <<>>}
       /\ feedback \notin {NoneStr, <<>>}
  /\ Called("visualize_scores") => Parsed /\ scores # <<>>
  /\ (/\ pc = "done"
      /\ \/ uploaded_file = "None"
         \/ business_plan_text \in {NoneStr, <<>>}
         \/ feedback \in {NoneStr, <<>>}) =>
       /\ ~Called("parse_detailed_scores")
       /\ ~Called("visualize_scores")
       /\ messages # <<>>
       /\ messages[Len(messages)] \in
            {"warning_upload_first", "warning_no_text", "error_ai"}
  /\ pc = "stopped" =>
       /\ calls = <<>>
       /\ messages # <<>>
       /\ messages[Len(messages)] \in {"error_no_api_key", "error_client_init"}

\* C9 witness: a run in which the generator returned None without reporting
\* an exception and which ended with the error of main().
C9_Witness ==
  /\ pc = "done"
  /\ calls = <<"extract_text_from_pdf", "generate_ai_feedback">>
  /\ feedback = NoneStr
  /\ messages = <<"error_ai">>

\* C10 (as claimed): a score line that names a category only by a recognized
\* synonym header resolves to the category: the entry of the category carries
\* the score of that line.  (The line goes on after its token, so the detail
\* capture of C3 is not at stake.)
C10_SynonymResolves ==
  Parsed =>
    \A c \in CategorySet :
      LET O == UNION {Occurrences(feedback, h) : h \in SynonymOf(c)}
      IN (/\ Occurrences(feedback, c) = {}
          /\ Cardinality(O) = 1
          /\ OwnSlashes(feedback, Min(O)) # {}
          /\ ~IsDigit(feedback[Len(feedback)])) =>
           EntryOf(scores, c).score =
             ToFloat(NumeratorOf(feedback, Min(OwnSlashes(feedback, Min(O)))))

====
